---- MODULE Spec2Model ----
(***************************************************************************)
(* A model of BLUESPAWN-common/headers/common/wrappers.hpp: the           *)
(* reference-counted GenericWrapper and its HandleWrapper / FindWrapper   *)
(* specialisations, the scoped guards AcquireMutex and                    *)
(* BeginCriticalSection, AllocationWrapper, and MemoryWrapper.            *)
(*                                                                         *)
(* The header is five nearly independent classes, so the module has one   *)
(* specification per group (SpecOwn, SpecLock, SpecAlloc, SpecStr,        *)
(* SpecMem).  Each specification moves its own variables and leaves the   *)
(* others at their initial value.                                         *)
(***************************************************************************)
EXTENDS Integers, Sequences, FiniteSets, TLC

VARIABLES
    \* ---- GenericWrapper / HandleWrapper / FindWrapper / MemoryWrapper lifetime
    ctrl,        \* control blocks of ReferenceCounter (one per construction)
    wrap,        \* GenericWrapper instances
    views,       \* MemoryWrapper instances (address, MemorySize, process)
    open,        \* the OS handle table: handle values that are open
    lastRet,     \* the value returned by Release(), when that was the last call
    \* ---- AcquireMutex / BeginCriticalSection
    mutex,       \* the OS mutex behind the caller's MutexType handle, and its wrapper's count
    section,     \* the caller's CriticalSection: its CRITICAL_SECTION and tracker count
    guard,       \* per thread: the scoped guard it is constructing / holding
    \* ---- AllocationWrapper
    heap,        \* caller buffers, by pointer value
    allocs,      \* AllocationWrapper instances
    allocRes,    \* the last AllocationWrapper call and its result
    \* ---- MemoryWrapper::ReadString / ReadWstring (foreign context)
    rs,          \* the call's inputs, locals and result
    \* ---- MemoryWrapper accesses (Dereference, CompareMemory, Protect, ...)
    mv           \* the last access: the view and the byte range it touched

ownVars   == <<ctrl, wrap, views, open, lastRet>>
lockVars  == <<mutex, section, guard>>
allocVars == <<heap, allocs, allocRes>>
strVars   == <<rs>>
memVars   == <<mv>>
vars      == <<ctrl, wrap, views, open, lastRet, mutex, section, guard,
               heap, allocs, allocRes, rs, mv>>

Min(a, b) == IF a < b THEN a ELSE b

(***************************************************************************)
(* Values.                                                                 *)
(***************************************************************************)
NULL == 0
INVALID_HANDLE_VALUE == -1
\* GetCurrentProcess() is the pseudo handle (HANDLE)-1
CurrentProcess == INVALID_HANDLE_VALUE
\* a handle the caller has opened (a foreign process, a file, a mutex)
CallerHandle == 1
Objects == {NULL, INVALID_HANDLE_VALUE, CallerHandle}

MaxCtrl == 2
MaxWrap == 3
MaxViews == 2
MaxAddr == 2

NoBad == [has |-> FALSE, val |-> NULL]
Bad(v) == [has |-> TRUE, val |-> v]

NoCtrl == [used |-> FALSE, object |-> NULL, BadValue |-> NoBad,
           kind |-> "generic", viaView |-> FALSE, refs |-> 0,
           released |-> <<>>, closes |-> 0, freedDetached |-> FALSE]
NoWrap == [state |-> "unused", rc |-> 0, WrappedObject |-> NULL,
           BadValue |-> NoBad, member |-> FALSE, relCalled |-> FALSE]
NoView == [state |-> "unused", address |-> 0, MemorySize |-> 0, process |-> 0]
\* a destroyed instance: its fields are gone
DeadWrap == [NoWrap EXCEPT !.state = "dead"]
DeadView == [NoView EXCEPT !.state = "dead"]

(***************************************************************************)
(* GenericWrapper<T>: wrappers.hpp 10-36.                                  *)
(*                                                                         *)
(* A construction makes one control block (the shared_ptr<void>            *)
(* ReferenceCounter) whose deleter has captured object, BadValue and       *)
(* freeFunction BY VALUE.  Copies of the wrapper share the control block   *)
(* and copy WrappedObject / BadValue.                                      *)
(***************************************************************************)
CtrlIds == 1..MaxCtrl
WrapIds == 1..MaxWrap
ViewIds == 1..MaxViews

HasFreshCtrl == \E a \in CtrlIds : ~ctrl[a].used
FreshCtrl == CHOOSE a \in CtrlIds : ~ctrl[a].used /\ \A b \in 1..(a - 1) : ctrl[b].used
HasFreshWrap == \E w \in WrapIds : wrap[w].state = "unused"
FreshWrap == CHOOSE w \in WrapIds :
                 wrap[w].state = "unused" /\ \A x \in 1..(w - 1) : wrap[x].state # "unused"
HasFreshView == \E v \in ViewIds : views[v].state = "unused"
FreshView == CHOOSE v \in ViewIds :
                 views[v].state = "unused" /\ \A x \in 1..(v - 1) : views[x].state # "unused"

\* the constructor's init list, line 20-25: the control block
NewCtrl(object, bad, kind, viaView) ==
    [used |-> TRUE, object |-> object, BadValue |-> bad, kind |-> kind,
     viaView |-> viaView, refs |-> 1, released |-> <<>>, closes |-> 0,
     freedDetached |-> FALSE]

\* the constructor's init list, line 20-25: the wrapper's own fields
NewWrapper(a, object, bad, member) ==
    [state |-> "alive", rc |-> a, WrappedObject |-> object, BadValue |-> bad,
     member |-> member, relCalled |-> FALSE]

\* the deleter's condition, line 24:
\*   (!BadValue || object != BadValue) && object
ShouldFree(c) ==
    (~c.BadValue.has \/ c.object # c.BadValue.val) /\ c.object # NULL

\* What GetFileInformationByHandle can answer for handle h (the OS): a value
\* that is not an open handle fails with ERROR_INVALID_HANDLE; an open handle
\* succeeds if it is a file and fails in an OS-dependent way otherwise.
ProbeOutcomes(h, op) ==
    IF h \in op THEN {"success", "ERROR_INVALID_HANDLE", "other"}
                ELSE {"ERROR_INVALID_HANDLE"}

\* HandleWrapper::SafeCloseHandle, line 42-53: TRUE iff CloseHandle is called
SafeCloseHandle(probe) ==
    IF probe = "success" THEN TRUE
    ELSE IF probe # "ERROR_INVALID_HANDLE" THEN TRUE ELSE FALSE

\* does freeFunction(object) close the OS handle: SafeCloseHandle (line 41),
\* FindClose (line 59), or a caller's function (line 20)
ClosesHandle(kind, probe) ==
    CASE kind = "handle" -> SafeCloseHandle(probe)
      [] kind = "find"   -> TRUE
      [] OTHER           -> FALSE

\* the deleter lambda, line 23-25, run on control block c; detached tells
\* whether the wrapper whose destruction ran it had Release() called on it
RunDeleter(c, op, probe, detached) ==
    IF ShouldFree(c)
    THEN LET closing == ClosesHandle(c.kind, probe)
         IN  [c  |-> [c EXCEPT !.released = Append(@, c.object),
                               !.closes = IF closing THEN @ + 1 ELSE @,
                               !.freedDetached = detached],
              op |-> IF closing THEN op \ {c.object} ELSE op]
    ELSE [c |-> c, op |-> op]

\* ~shared_ptr on one copy that drops every time instead of on the last copy
DropRef_NoCount(c, op, probe, detached) ==
    RunDeleter([c EXCEPT !.refs = @ - 1], op, probe, detached)

\* ~shared_ptr on one copy: the deleter runs when the last reference goes
DropRef(c, op, probe, detached) ==
    LET c1 == [c EXCEPT !.refs = @ - 1]
    IN  IF c1.refs = 0 THEN RunDeleter(c1, op, probe, detached)
                       ELSE [c |-> c1, op |-> op]

\* GenericWrapper(T object, freeFunction, BadValue), line 20-25
Construct(object, bad, kind) ==
    /\ HasFreshCtrl /\ HasFreshWrap
    /\ ctrl' = [ctrl EXCEPT ![FreshCtrl] = NewCtrl(object, bad, kind, FALSE)]
    /\ wrap' = [wrap EXCEPT ![FreshWrap] = NewWrapper(FreshCtrl, object, bad, FALSE)]
    /\ lastRet' = NULL /\ UNCHANGED <<views, open>>

GenericWrapperNew ==
    \E object \in Objects, bad \in {NoBad, Bad(INVALID_HANDLE_VALUE)} :
        Construct(object, bad, "generic")

\* HandleWrapper(HANDLE handle), line 40-41
HandleWrapperNew ==
    \E h \in Objects : Construct(h, Bad(INVALID_HANDLE_VALUE), "handle")

\* FindWrapper(HANDLE handle), line 58-59
FindWrapperNew ==
    \E h \in Objects : Construct(h, Bad(INVALID_HANDLE_VALUE), "find")

\* the implicit copy constructor of GenericWrapper
CopiedWrapper(w, member) ==
    [state |-> "alive", rc |-> wrap[w].rc, WrappedObject |-> wrap[w].WrappedObject,
     BadValue |-> wrap[w].BadValue, member |-> member, relCalled |-> FALSE]

Copy(w) ==
    /\ wrap[w].state = "alive"
    /\ HasFreshWrap
    /\ wrap' = [wrap EXCEPT ![FreshWrap] = CopiedWrapper(w, FALSE)]
    /\ ctrl' = [ctrl EXCEPT ![wrap[w].rc].refs = @ + 1]
    /\ lastRet' = NULL /\ UNCHANGED <<views, open>>

\* the implicit destructor of GenericWrapper
Destroy(w) ==
    /\ wrap[w].state = "alive"
    /\ ~wrap[w].member
    /\ \E probe \in ProbeOutcomes(ctrl[wrap[w].rc].object, open) :
          LET r == DropRef(ctrl[wrap[w].rc], open, probe, wrap[w].relCalled)
          IN  /\ ctrl' = [ctrl EXCEPT ![wrap[w].rc] = r.c]
              /\ open' = r.op
    /\ wrap' = [wrap EXCEPT ![w] = DeadWrap]
    /\ lastRet' = NULL /\ UNCHANGED views

\* T Release(), line 34.  WrappedObject = BadValue only has a value to store
\* when the wrapper was built with a sentinel.
Release(w) ==
    /\ wrap[w].state = "alive"
    /\ wrap[w].BadValue.has
    /\ lastRet' = wrap[w].WrappedObject
    /\ wrap' = [wrap EXCEPT ![w].WrappedObject = wrap[w].BadValue.val,
                            ![w].relCalled = TRUE]
    /\ UNCHANGED <<ctrl, views, open>>

(***************************************************************************)
(* MemoryWrapper<T> as an object with a lifetime: wrappers.hpp 219-274.    *)
(* Its member `HandleWrapper process` is built from the caller's raw       *)
(* HANDLE, so every constructed view starts a new control block over that  *)
(* handle; a copied view copies the member and shares the control block.   *)
(***************************************************************************)
\* MemoryWrapper(lpMemoryBase, size, process), line 228-229
MakeView(address, size, process) ==
    /\ HasFreshCtrl /\ HasFreshWrap /\ HasFreshView
    /\ ctrl' = [ctrl EXCEPT ![FreshCtrl] =
                   NewCtrl(process, Bad(INVALID_HANDLE_VALUE), "handle", TRUE)]
    /\ wrap' = [wrap EXCEPT ![FreshWrap] =
                   NewWrapper(FreshCtrl, process, Bad(INVALID_HANDLE_VALUE), TRUE)]
    /\ views' = [views EXCEPT ![FreshView] =
                   [state |-> "alive", address |-> address, MemorySize |-> size,
                    process |-> FreshWrap]]
    /\ lastRet' = NULL /\ UNCHANGED open

MemoryWrapperNew ==
    \E address \in 1..MaxAddr, size \in 0..MaxAddr,
       process \in {CurrentProcess, CallerHandle} :
        MakeView(address, size, process)

\* the implicit copy constructor of MemoryWrapper
CopyView(v) ==
    /\ views[v].state = "alive"
    /\ HasFreshWrap /\ HasFreshView
    /\ wrap' = [wrap EXCEPT ![FreshWrap] = CopiedWrapper(views[v].process, TRUE)]
    /\ ctrl' = [ctrl EXCEPT ![wrap[views[v].process].rc].refs = @ + 1]
    /\ views' = [views EXCEPT ![FreshView] = [views[v] EXCEPT !.process = FreshWrap]]
    /\ lastRet' = NULL /\ UNCHANGED open

\* Convert<V>(), line 263-266: { address, MemorySize, process }; process is
\* passed as a HANDLE (operator T(), line 27)
Convert(v) ==
    /\ views[v].state = "alive"
    /\ MakeView(views[v].address, views[v].MemorySize,
                wrap[views[v].process].WrappedObject)

\* GetOffset(offset), line 268-274
GetOffset(v, offset) ==
    /\ views[v].state = "alive"
    /\ IF offset > views[v].MemorySize
       THEN MakeView(NULL, 0, wrap[views[v].process].WrappedObject)
       ELSE MakeView(views[v].address + offset, views[v].MemorySize - offset,
                     wrap[views[v].process].WrappedObject)

\* the implicit destructor of MemoryWrapper: destroys the member process
DestroyView(v) ==
    /\ views[v].state = "alive"
    /\ LET w == views[v].process
       IN  /\ \E probe \in ProbeOutcomes(ctrl[wrap[w].rc].object, open) :
                 LET r == DropRef(ctrl[wrap[w].rc], open, probe, wrap[w].relCalled)
                 IN  /\ ctrl' = [ctrl EXCEPT ![wrap[w].rc] = r.c]
                     /\ open' = r.op
           /\ wrap' = [wrap EXCEPT ![w] = DeadWrap]
    /\ views' = [views EXCEPT ![v] = DeadView]
    /\ lastRet' = NULL

OwnOnly == UNCHANGED <<lockVars, allocVars, strVars, memVars>>

NextOwn ==
    \/ GenericWrapperNew /\ OwnOnly
    \/ HandleWrapperNew /\ OwnOnly
    \/ FindWrapperNew /\ OwnOnly
    \/ \E w \in WrapIds :
           Copy(w) /\ OwnOnly
    \/ \E w \in WrapIds :
           Destroy(w) /\ OwnOnly
    \/ \E w \in WrapIds :
           Release(w) /\ OwnOnly

NextView ==
    \/ MemoryWrapperNew /\ OwnOnly
    \/ \E v \in ViewIds :
           CopyView(v) /\ OwnOnly
    \/ \E v \in ViewIds :
           Convert(v) /\ OwnOnly
    \/ \E v \in ViewIds, offset \in 0..(MaxAddr + 1) :
           GetOffset(v, offset) /\ OwnOnly
    \/ \E v \in ViewIds :
           DestroyView(v) /\ OwnOnly

(***************************************************************************)
(* Claims on GenericWrapper and on MemoryWrapper's lifetime.               *)
(***************************************************************************)
AliveOn(a) == {w \in WrapIds : wrap[w].state = "alive" /\ wrap[w].rc = a}

\* C1: for a wrapper constructed once on v and copied, freeFunction has not
\* been called while a copy is alive, and once every copy is destroyed it has
\* been called exactly once, with v, when v is non-null and is not the
\* sentinel, and not at all when v is null or the sentinel.
C1_ReleasedExactlyOnce ==
    \A a \in CtrlIds : ctrl[a].used =>
        /\ ctrl[a].refs = Cardinality(AliveOn(a))
        /\ ctrl[a].refs > 0 => ctrl[a].released = <<>>
        /\ ctrl[a].refs = 0 =>
              ctrl[a].released =
                  IF /\ ctrl[a].object # NULL
                     /\ ~(ctrl[a].BadValue.has /\ ctrl[a].object = ctrl[a].BadValue.val)
                  THEN <<ctrl[a].object>> ELSE <<>>

\* C1 witness: one construction on the caller's handle, copied twice, every
\* copy destroyed, the release action called once with the handle
C1_Witness ==
    /\ ctrl[1].used /\ ~ctrl[2].used
    /\ \A w \in WrapIds : wrap[w].state = "dead"
    /\ ctrl[1].released = <<CallerHandle>>

\* C2: after Release() the wrapper holds the sentinel, and the destruction of
\* that wrapper as the last owning reference does not call the release action
\* on the detached value.
C2_ReleaseDetaches ==
    /\ \A w \in WrapIds :
          wrap[w].state = "alive" /\ wrap[w].relCalled =>
              wrap[w].WrappedObject = wrap[w].BadValue.val
    /\ \A a \in CtrlIds : ~ctrl[a].freedDetached

\* C3: whatever MemoryWrapper instances were constructed, copied, derived and
\* destroyed over the caller's handle, no CloseHandle was performed on it and
\* it is still open.
C3_ViewsNeverClose ==
    /\ \A a \in CtrlIds : ctrl[a].used /\ ctrl[a].viaView => ctrl[a].closes = 0
    /\ CallerHandle \in open

(***************************************************************************)
(* AcquireMutex (wrappers.hpp 62-73) and CriticalSection /                 *)
(* BeginCriticalSection (75-100).                                          *)
(*                                                                         *)
(* The caller owns one MutexType (a HandleWrapper on an OS mutex) and one  *)
(* CriticalSection; each thread opens scopes that construct a guard from   *)
(* one of them, run the guarded region, and destroy the guard.             *)
(*                                                                         *)
(* BeginCriticalSection keeps `CriticalSection critsec` BY VALUE: the      *)
(* member is a copy of the caller's object (its CRITICAL_SECTION struct    *)
(* and its tracker), and EnterCriticalSection / LeaveCriticalSection get   *)
(* operator PCRITICAL_SECTION() of the member, the address of the copy.    *)
(***************************************************************************)
NumThreads == 2
MaxScopes == 2
Threads == 1..NumThreads

NoGuard == [pc |-> "idle", kind |-> "none", critsec |-> 0, acquires |-> 0,
            releases |-> 0, acqOn |-> "none", relOn |-> "none", scopes |-> 0]

\* AcquireMutex(const MutexType& mutex), line 68-70: the member initialisers.
\* hMutex{ mutex } copies the HandleWrapper; the constructor body then blocks.
AcquireMutexInit(t) ==
    /\ guard[t].pc \in {"idle", "gone"}
    /\ guard[t].scopes < MaxScopes
    /\ guard' = [guard EXCEPT ![t] =
                    [NoGuard EXCEPT !.pc = "wait", !.kind = "mutex",
                                    !.scopes = guard[t].scopes + 1]]
    /\ mutex' = [mutex EXCEPT !.refs = @ + 1]
    /\ UNCHANGED section

\* ::WaitForSingleObject(hMutex, INFINITE), line 71
WaitForSingleObject(t) ==
    /\ guard[t].pc = "wait" /\ guard[t].kind = "mutex"
    /\ mutex.owner = 0
    /\ mutex' = [mutex EXCEPT !.owner = t]
    /\ guard' = [guard EXCEPT ![t].pc = "held", ![t].acquires = @ + 1,
                              ![t].acqOn = "mutex"]
    /\ UNCHANGED section

\* ~AcquireMutex without the tracker's deleter
AcquireMutexDestroy_NoRelease(t) ==
    /\ guard[t].pc = "held" /\ guard[t].kind = "mutex"
    /\ mutex' = [mutex EXCEPT !.refs = @ - 1]
    /\ guard' = [guard EXCEPT ![t].pc = "gone"]
    /\ UNCHANGED section

\* ~AcquireMutex: tracker's deleter runs ReleaseMutex(hMutex) (line 70), then
\* hMutex drops its reference
AcquireMutexDestroy(t) ==
    /\ guard[t].pc = "held" /\ guard[t].kind = "mutex"
    /\ mutex' = [mutex EXCEPT !.owner = 0, !.refs = @ - 1]
    /\ guard' = [guard EXCEPT ![t].pc = "gone", ![t].releases = @ + 1,
                              ![t].relOn = "mutex"]
    /\ UNCHANGED section

\* BeginCriticalSection(const CriticalSection& section), line 95-97: the
\* member initialisers.  critsec{ section } copy-constructs the member: the
\* CRITICAL_SECTION is copied as it is at that moment, the tracker is shared.
BeginCriticalSectionInit(t) ==
    /\ guard[t].pc \in {"idle", "gone"}
    /\ guard[t].scopes < MaxScopes
    /\ guard' = [guard EXCEPT ![t] =
                    [NoGuard EXCEPT !.pc = "wait", !.kind = "critsec",
                                    !.critsec = section.owner,
                                    !.scopes = guard[t].scopes + 1]]
    /\ section' = [section EXCEPT !.refs = @ + 1]
    /\ UNCHANGED mutex

\* ::EnterCriticalSection(critsec), line 98: enters the member's
\* CRITICAL_SECTION, which blocks while another thread owns THAT struct
EnterCriticalSection(t) ==
    /\ guard[t].pc = "wait" /\ guard[t].kind = "critsec"
    /\ guard[t].critsec \in {0, t}
    /\ guard' = [guard EXCEPT ![t].pc = "held", ![t].critsec = t,
                              ![t].acquires = @ + 1, ![t].acqOn = "critsec member"]
    /\ UNCHANGED <<mutex, section>>

\* ~BeginCriticalSection: tracker's deleter runs LeaveCriticalSection(critsec)
\* (line 97), then critsec drops its reference to the caller's tracker
BeginCriticalSectionDestroy(t) ==
    /\ guard[t].pc = "held" /\ guard[t].kind = "critsec"
    /\ guard' = [guard EXCEPT ![t].pc = "gone", ![t].critsec = 0,
                              ![t].releases = @ + 1, ![t].relOn = "critsec member"]
    /\ section' = [section EXCEPT !.refs = @ - 1]
    /\ UNCHANGED mutex

LockOnly == UNCHANGED <<ownVars, allocVars, strVars, memVars>>

NextLock ==
    \/ \E t \in Threads :
           AcquireMutexInit(t) /\ LockOnly
    \/ \E t \in Threads :
           WaitForSingleObject(t) /\ LockOnly
    \/ \E t \in Threads :
           AcquireMutexDestroy(t) /\ LockOnly
    \/ \E t \in Threads :
           BeginCriticalSectionInit(t) /\ LockOnly
    \/ \E t \in Threads :
           EnterCriticalSection(t) /\ LockOnly
    \/ \E t \in Threads :
           BeginCriticalSectionDestroy(t) /\ LockOnly

\* Scheduling: a thread that is not blocked runs on, and a thread blocked in
\* WaitForSingleObject gets the mutex if it is released again and again.
FairLock ==
    \A t \in Threads :
        /\ WF_vars(AcquireMutexDestroy(t) /\ LockOnly)
        /\ WF_vars(BeginCriticalSectionDestroy(t) /\ LockOnly)
        /\ WF_vars(EnterCriticalSection(t) /\ LockOnly)
        /\ SF_vars(WaitForSingleObject(t) /\ LockOnly)

\* C4: at most one thread is inside a region guarded by a
\* BeginCriticalSection built from the same CriticalSection object.
C4_MutualExclusion ==
    Cardinality({t \in Threads : guard[t].pc = "held" /\ guard[t].kind = "critsec"}) <= 1

MaxSize == 2
\* one caller buffer per allocation; two allocations may also share one
Ptrs == {1, 2}
Chars == {0, 1}
AllocIds == {1, 2}

NoAlloc == [state |-> "unused", Memory |-> FALSE, pointer |-> NULL, AllocationSize |-> 0]
NoRes == [op |-> "none", a |-> 0, b |-> 0, offset |-> 0, ret |-> "none",
          nullWrite |-> FALSE]

\* AllocationWrapper(memory, size, AllocationType), line 112-134
AllocationWrapperInit(memory, size) ==
    [state |-> "alive",
     Memory |-> (size # 0 /\ memory # NULL),
     pointer |-> memory,
     AllocationSize |-> size]

AllocationWrapperNew(a) ==
    /\ allocs[a].state = "unused"
    /\ \E memory \in Ptrs \cup {NULL}, size \in 0..MaxSize :
          allocs' = [allocs EXCEPT ![a] = AllocationWrapperInit(memory, size)]
    /\ allocRes' = NoRes
    /\ UNCHANGED heap

\* CHAR operator[](int i) const, line 136-138
Index(w, i) ==
    IF w.Memory /\ i < w.AllocationSize THEN heap[w.pointer][i + 1] ELSE 0

\* CompareMemory without the size test of line 195
CompareMemory_NoSizeTest(self, wrapper) ==
    IF ~wrapper.Memory /\ ~self.Memory THEN TRUE
    ELSE IF ~wrapper.Memory \/ ~self.Memory THEN FALSE
    ELSE \A i \in 0..(self.AllocationSize - 1) :
             heap[self.pointer][i + 1] = Index(wrapper, i)

\* bool CompareMemory(const AllocationWrapper& wrapper) const, line 190-203
CompareMemory(self, wrapper) ==
    IF ~wrapper.Memory /\ ~self.Memory THEN TRUE
    ELSE IF ~wrapper.Memory \/ ~self.Memory THEN FALSE
    ELSE IF wrapper.AllocationSize = self.AllocationSize
         THEN \A i \in 0..(self.AllocationSize - 1) :
                  heap[self.pointer][i + 1] = Index(wrapper, i)
         ELSE FALSE

CallCompareMemory(a, b) ==
    /\ allocs[a].state = "alive" /\ allocs[b].state = "alive"
    /\ allocRes' = [NoRes EXCEPT !.op = "CompareMemory", !.a = a, !.b = b,
                       !.ret = IF CompareMemory(allocs[a], allocs[b])
                               THEN "true" ELSE "false"]
    /\ UNCHANGED <<heap, allocs>>

\* bool SetByte(SIZE_T offset, char value), line 205-211.  The test is on
\* AllocationSize alone; with a null pointer the store of line 207 goes
\* through address 0 + offset, which faults or, if that page is mapped, lets
\* the call go on to return true.
SetByte(a, offset, value) ==
    /\ allocs[a].state = "alive"
    /\ IF offset < allocs[a].AllocationSize
       THEN IF allocs[a].pointer = NULL
            THEN /\ \E outcome \in {"fault", "true"} :
                       allocRes' = [NoRes EXCEPT !.op = "SetByte", !.a = a,
                                       !.offset = offset, !.ret = outcome,
                                       !.nullWrite = TRUE]
                 /\ UNCHANGED heap
            ELSE /\ heap' = [heap EXCEPT ![allocs[a].pointer][offset + 1] = value]
                 /\ allocRes' = [NoRes EXCEPT !.op = "SetByte", !.a = a,
                                    !.offset = offset, !.ret = "true"]
       ELSE /\ allocRes' = [NoRes EXCEPT !.op = "SetByte", !.a = a,
                               !.offset = offset, !.ret = "false"]
            /\ UNCHANGED heap
    /\ UNCHANGED allocs

AllocOnly == UNCHANGED <<ownVars, lockVars, strVars, memVars>>

NextAlloc ==
    \/ \E a \in AllocIds :
           AllocationWrapperNew(a) /\ AllocOnly
    \/ \E a, b \in AllocIds :
           CallCompareMemory(a, b) /\ AllocOnly
    \/ \E a \in AllocIds, offset \in 0..MaxSize, value \in Chars :
           SetByte(a, offset, value) /\ AllocOnly

\* C9: CompareMemory is an equality on allocations: an allocation equals
\* itself; two without backing memory are equal; one with and one without
\* are unequal, in both directions; two with backing memory are equal iff
\* their sizes are equal and every byte below the size is equal.
C9_CompareIsEquality ==
    allocRes.op = "CompareMemory" =>
        LET A == allocs[allocRes.a]
            B == allocs[allocRes.b]
            SameBytes == /\ A.AllocationSize = B.AllocationSize
                         /\ \A i \in 1..A.AllocationSize :
                                heap[A.pointer][i] = heap[B.pointer][i]
        IN  /\ allocRes.a = allocRes.b => allocRes.ret = "true"
            /\ ~A.Memory /\ ~B.Memory => allocRes.ret = "true"
            /\ A.Memory # B.Memory => allocRes.ret = "false"
            /\ A.Memory /\ B.Memory => (allocRes.ret = "true" <=> SameBytes)

\* C9 witness: two allocations with backing memory, different sizes and the
\* same bytes where they overlap, compared unequal
C9_Witness ==
    /\ allocRes.op = "CompareMemory"
    /\ LET A == allocs[allocRes.a]
           B == allocs[allocRes.b]
       IN  /\ A.Memory /\ B.Memory
           /\ A.AllocationSize < B.AllocationSize
           /\ \A i \in 1..A.AllocationSize : heap[A.pointer][i] = heap[B.pointer][i]
           /\ allocRes.ret = "false"

\* C10: on an Allocation without backing memory SetByte returns false for
\* every offset and writes nothing through the stored pointer.
C10_SetByteNeedsMemory ==
    allocRes.op = "SetByte" /\ ~allocs[allocRes.a].Memory =>
        allocRes.ret = "false" /\ ~allocRes.nullWrite

(***************************************************************************)
(* MemoryWrapper::ReadString / ReadWstring in a foreign context:           *)
(* wrappers.hpp 292-342.                                                   *)
(*                                                                         *)
(* The remote region holds MemorySize bytes, of which the first `mapped`   *)
(* are readable: ReadProcessMemory of n bytes succeeds iff n <= mapped.    *)
(* Its characters are nonzero up to a terminator at index termPos (no      *)
(* terminator when termPos is the number of characters).  The scratch      *)
(* buffer is new char[] / new wchar_t[], never initialised, and a failed   *)
(* ReadProcessMemory leaves it so: a character read from it is any value.  *)
(***************************************************************************)
InitialMaxIdx == 10
SizeofWCHAR == 2
MaxRegion == 21

CharSize(r) == IF r.wide THEN SizeofWCHAR ELSE 1
\* MemorySize, or MemorySize / sizeof(WCHAR) in ReadWstring (line 300, 326)
Elements(r) == r.MemorySize \div CharSize(r)
RemoteChar(r, i) == IF i = r.termPos THEN 0 ELSE 1
\* the characters of the remote region that precede its first terminator
RemoteString(r) == [i \in 1..r.termPos |-> RemoteChar(r, i - 1)]

\* BOOL ReadProcessMemory(process, address, memory, n, nullptr)
ReadProcessMemory(r, n) == n <= r.mapped

\* the loop condition of line 300 / 326:
\*   !valid && !ReadProcessMemory(..., maxIdx = min(maxIdx * 2, MemorySize), ...)
\* the body runs when the read FAILED; a read that succeeds ends the loop
WhileTest ==
    /\ rs.pc = "while"
    /\ IF rs.valid
       THEN rs' = [rs EXCEPT !.pc = "return"]
       ELSE LET m == Min(rs.maxIdx * 2, Elements(rs))
                ok == ReadProcessMemory(rs, m * CharSize(rs))
            IN  rs' = [rs EXCEPT !.maxIdx = m,
                                 !.anyRead = TRUE,
                                 !.allOk = rs.allOk /\ ok,
                                 !.pc = IF ok THEN "return" ELSE "for"]

\* one turn of for(; idx < maxIdx; idx++), line 301-308 / 327-332: the
\* character tested is an uninitialised one
ForStep ==
    /\ rs.pc = "for"
    /\ IF rs.idx < rs.maxIdx
       THEN \E c \in {0, 1} :
               IF c = 0
               THEN rs' = [rs EXCEPT !.valid = TRUE, !.pc = "while"]
               ELSE rs' = [rs EXCEPT !.idx = @ + 1]
       ELSE rs' = [rs EXCEPT !.pc = "while"]

\* line 310-314 / 336-340: std::string{ memory } of the scratch buffer, whose
\* characters before the zero that was found were never looked at
Return ==
    /\ rs.pc = "return"
    /\ IF rs.valid
       THEN \E k \in 0..rs.idx :
               rs' = [rs EXCEPT !.pc = "done", !.result = [i \in 1..k |-> 1]]
       ELSE rs' = [rs EXCEPT !.pc = "done", !.result = <<>>]

StrOnly == UNCHANGED <<ownVars, lockVars, allocVars, memVars>>

NextStr ==
    \/ WhileTest /\ StrOnly
    \/ ForStep /\ StrOnly
    \/ Return /\ StrOnly

\* C6: when the region contains a terminator and the remote reads succeed,
\* the call returns the characters that precede the first terminator.
C6_ReturnsPrefix ==
    rs.pc = "done" /\ rs.anyRead /\ rs.allOk /\ rs.termPos < Elements(rs) =>
        rs.result = RemoteString(rs)

\* C7: every call terminates, and a call that found no terminator returns the
\* empty string, also when every remote read fails.
C7_Terminates ==
    /\ <>(rs.pc = "done")
    /\ [](rs.pc = "done" /\ ~rs.valid => rs.result = <<>>)

(***************************************************************************)
(* MemoryWrapper accesses: wrappers.hpp 231-239, 276-295, 347-374.         *)
(* Each action is one call on a view (address, MemorySize) of element      *)
(* type T and records the byte range [lo, hi) of the viewed memory that    *)
(* the call reads or re-protects.                                          *)
(***************************************************************************)
MaxViewAddr == 2
MaxViewSize == 3
LargeCopy == 32768
ElementSizes == {1, 2, 4}

NoAccess == [op |-> "none", address |-> 0, MemorySize |-> 0, sizeofT |-> 1,
             foreign |-> FALSE, lo |-> 0, hi |-> 0, cmpLen |-> 0, kind |-> "none"]

Access(op, address, size, sizeofT, foreign, n) ==
    [NoAccess EXCEPT !.op = op, !.address = address, !.MemorySize = size,
                     !.sizeofT = sizeofT, !.foreign = foreign,
                     !.lo = address, !.hi = address + n]

\* T Dereference() const, line 231-239: *address, or ReadProcessMemory of
\* sizeof(T) bytes
Dereference(address, size, sizeofT, foreign) ==
    Access("Dereference", address, size, sizeofT, foreign, sizeofT)

\* bool CompareMemory(MemoryWrapper<T> memory) const, line 276-280: both views
\* are dereferenced, then memcmp runs over min(memory.MemorySize, MemorySize)
\* bytes of the two local T values
ViewCompareMemory(address, size, sizeofT, foreign, otherSize) ==
    [Dereference(address, size, sizeofT, foreign) EXCEPT
        !.op = "CompareMemory", !.cmpLen = Min(otherSize, size)]

\* bool Protect(DWORD protections, SIZE_T size = -1), line 282-290
Protect(address, size, sizeofT, foreign, arg) ==
    Access("Protect", address, size, sizeofT, foreign,
           IF arg = -1 THEN size ELSE arg)

\* std::string ReadString() in the local context, line 293-294:
\* std::string{ address } reads up to and including the first zero byte,
\* which lies zeroAt bytes after address
LocalReadString(address, size, sizeofT, zeroAt) ==
    Access("ReadString", address, size, sizeofT, FALSE, zeroAt + 1)

\* AllocationWrapper ToAllocationWrapper(DWORD size), line 347-374
ToAllocationWrapper(address, size, sizeofT, foreign, arg) ==
    LET n == Min(arg, size)
    IN  [Access("ToAllocationWrapper", address, size, sizeofT, foreign, n) EXCEPT
            !.kind = IF n > LargeCopy THEN "VIRTUAL_ALLOC" ELSE "HEAP_ALLOC"]

ViewInputs == [address : 1..MaxViewAddr, size : 0..MaxViewSize,
               sizeofT : ElementSizes, foreign : BOOLEAN]

CallDereference ==
    \E v \in ViewInputs : mv' = Dereference(v.address, v.size, v.sizeofT, v.foreign)

CallViewCompareMemory ==
    \E v \in ViewInputs, otherSize \in 0..MaxViewSize :
        mv' = ViewCompareMemory(v.address, v.size, v.sizeofT, v.foreign, otherSize)

CallProtect ==
    \E v \in ViewInputs, arg \in -1..(MaxViewSize + 1) :
        mv' = Protect(v.address, v.size, v.sizeofT, v.foreign, arg)

CallLocalReadString ==
    \E v \in ViewInputs, zeroAt \in 0..(MaxViewSize + 1) :
        mv' = LocalReadString(v.address, v.size, v.sizeofT, zeroAt)

CallToAllocationWrapper ==
    \E v \in ViewInputs, arg \in 0..(MaxViewSize + 1) :
        mv' = ToAllocationWrapper(v.address, v.size, v.sizeofT, v.foreign, arg)

MemOnly == UNCHANGED <<ownVars, lockVars, allocVars, strVars>>

NextMem ==
    \/ CallDereference /\ MemOnly
    \/ CallViewCompareMemory /\ MemOnly
    \/ CallProtect /\ MemOnly
    \/ CallLocalReadString /\ MemOnly
    \/ CallToAllocationWrapper /\ MemOnly

\* C8: every access of a view (address, MemorySize) stays inside
\* [address, address + MemorySize), for every element type and every explicit
\* size argument.
C8_ClippedToSize ==
    mv.op # "none" =>
        /\ mv.lo >= mv.address
        /\ mv.hi <= mv.address + mv.MemorySize
        /\ mv.cmpLen <= mv.sizeofT

(***************************************************************************)
(* The specifications.  Each starts every class in its constructed state   *)
(* and runs the operations of one group.                                   *)
(***************************************************************************)
IdleStr ==
    [wide |-> FALSE, MemorySize |-> 0, mapped |-> 0, termPos |-> 0,
     pc |-> "done", idx |-> 0, maxIdx |-> InitialMaxIdx, valid |-> FALSE,
     anyRead |-> FALSE, allOk |-> TRUE, result |-> <<>>]

Init ==
    /\ ctrl = [a \in CtrlIds |-> NoCtrl]
    /\ wrap = [w \in WrapIds |-> NoWrap]
    /\ views = [v \in ViewIds |-> NoView]
    /\ open = {CallerHandle}
    /\ lastRet = NULL
    /\ mutex = [owner |-> 0, refs |-> 1]
    /\ section = [owner |-> 0, refs |-> 1]
    /\ guard = [t \in Threads |-> NoGuard]
    /\ heap = [p \in Ptrs |-> [i \in 1..MaxSize |-> 0]]
    /\ allocs = [a \in AllocIds |-> NoAlloc]
    /\ allocRes = NoRes
    /\ rs = IdleStr
    /\ mv = NoAccess

\* the caller's buffers hold any bytes
InitAlloc ==
    /\ ctrl = [a \in CtrlIds |-> NoCtrl]
    /\ wrap = [w \in WrapIds |-> NoWrap]
    /\ views = [v \in ViewIds |-> NoView]
    /\ open = {CallerHandle}
    /\ lastRet = NULL
    /\ mutex = [owner |-> 0, refs |-> 1]
    /\ section = [owner |-> 0, refs |-> 1]
    /\ guard = [t \in Threads |-> NoGuard]
    /\ heap \in [Ptrs -> [1..MaxSize -> Chars]]
    /\ allocs = [a \in AllocIds |-> NoAlloc]
    /\ allocRes = NoRes
    /\ rs = IdleStr
    /\ mv = NoAccess

\* a call of ReadString / ReadWstring on a foreign view:
\* int idx = 0; int maxIdx = 10; bool valid = false
InitStr ==
    /\ ctrl = [a \in CtrlIds |-> NoCtrl]
    /\ wrap = [w \in WrapIds |-> NoWrap]
    /\ views = [v \in ViewIds |-> NoView]
    /\ open = {CallerHandle}
    /\ lastRet = NULL
    /\ mutex = [owner |-> 0, refs |-> 1]
    /\ section = [owner |-> 0, refs |-> 1]
    /\ guard = [t \in Threads |-> NoGuard]
    /\ heap = [p \in Ptrs |-> [i \in 1..MaxSize |-> 0]]
    /\ allocs = [a \in AllocIds |-> NoAlloc]
    /\ allocRes = NoRes
    /\ \E wide \in BOOLEAN, size \in 0..MaxRegion :
          \E mapped \in {0, size},
             termPos \in 0..(size \div (IF wide THEN SizeofWCHAR ELSE 1)) :
              rs = [IdleStr EXCEPT !.wide = wide, !.MemorySize = size,
                                   !.mapped = mapped, !.termPos = termPos,
                                   !.pc = "while"]
    /\ mv = NoAccess

SpecOwn == Init /\ [][NextOwn]_vars

SpecView == Init /\ [][NextView]_vars

SpecLock == Init /\ [][NextLock]_vars /\ FairLock

SpecAlloc == InitAlloc /\ [][NextAlloc]_vars

\* the call is sequential code: it keeps running until it returns
SpecStr == InitStr /\ [][NextStr]_vars /\ WF_vars(NextStr)

SpecMem == Init /\ [][NextMem]_vars

====
